---- MODULE Spec2Model ----
(***************************************************************************)
(* Behaviour layer of the Bankist page (src/script.js): the delegated      *)
(* event utility, the modal window, the header navigation, the tab         *)
(* manager, the lazy image loader, the slider and the mobile navigation    *)
(* toggle, as handlers reacting to DOM events.                             *)
(***************************************************************************)
EXTENDS Integers, Sequences, FiniteSets, TLC

\* ------------------------------------------------------------------ bounds
MaxSlides == 3
NumOpenBtns == 2
NumTabs == 3
NumNavLinks == 2
NumImages == 2
MaxEntries == 2

\* --------------------------------------------------------------- variables
VARIABLES
  numSlides,      \* slides.length
  selectedSlide,  \* the closure variable selectedSlide
  transform,      \* slide index -> translateX percentage of slide.style.transform
  dots,           \* dot index -> data-slide attribute (a digit string)
  classList,      \* element -> its set of class names
  fault,          \* whether the listener of the event dispatched last threw a TypeError
  defaultPrevented, \* whether that listener called evt.preventDefault()
  scrolledTo,     \* the element scrollIntoView was called on last (Null: none yet)
  domLoaded,      \* whether the DOMContentLoaded listener has run
  idAttr,         \* section -> its id attribute ("": it has none)
  observed,       \* the images lazyLodaderObs observes
  src,            \* image -> its src attribute
  srcWrites,      \* image -> how many times the callback has assigned its src
  loadListeners,  \* image -> how many load listeners the callback has added to it
  pendingLoad,    \* image -> whether the browser is loading its src (the placeholder at first)
  reported,       \* image -> the isIntersecting of the entry queued for it last ("none": no entry yet)
  entries,        \* the entries the observer callback received last
  everIntersecting, \* the images some entry delivered so far reported as intersecting
  sectionReported, \* section -> the isIntersecting of the entry sectionObs queued for it last
  headerReported, \* header -> the isIntersecting of the entry headerObs queued for it last
  opacity,        \* navigation link or logo -> its style.opacity ("": never assigned)
  hovered,        \* the element under the pointer inside the navigation bar (Null: none)
  evt,            \* the event dispatched last
  prevClassList,  \* classList as it was when that event was dispatched
  cb,             \* what the delegated listener did with the event dispatched last
  sliderOps,      \* the last (at most two) slider operations, each with the index before it
  nextRun         \* the current run of consecutive next() calls: its start index and length

sliderVars == <<numSlides, selectedSlide, transform, dots, sliderOps, nextRun>>
navVars == <<scrolledTo, domLoaded, idAttr>>
lazyVars == <<observed, src, srcWrites, loadListeners, pendingLoad, reported, entries,
              everIntersecting>>
obsVars == <<sectionReported, headerReported>>
hoverVars == <<opacity, hovered>>
vars == <<sliderVars, navVars, lazyVars, obsVars, hoverVars, classList, fault, defaultPrevented, evt, prevClassList, cb>>

\* --------------------------------------------------------------- document
El(tag, idx) == [tag |-> tag, idx |-> idx]
Null == El("null", 0)
document == El("document", 0)
modal == El("modal", 0)
overlay == El("overlay", 0)
btnCloseModal == El("btnCloseModal", 0)
slider == El("slider", 0)
btnLeft == El("btnLeft", 0)
btnRight == El("btnRight", 0)
dotsBox == El("dots", 0)
operationsZone == El("operations", 0)
tabContainer == El("tabContainer", 0)
nav == El("nav", 0)
logo == El("logo", 0)
navLinks == El("navLinks", 0)
header == El("header", 1)

btnsOpenModal == {El("btnOpenModal", i) : i \in 1..NumOpenBtns}
slides(n) == {El("slide", i) : i \in 0..(n - 1)}
dotElts(n) == {El("dot", i) : i \in 0..(n - 1)}

tabBtnElts == {El("tab", i) : i \in 1..NumTabs}
tabLabelElts == {El("tabLabel", i) : i \in 1..NumTabs}
contentElts == {El("content", i) : i \in 1..NumTabs}
navLinkElts == {El("navLink", i) : i \in 1..NumNavLinks}
navLinkLabelElts == {El("navLinkLabel", i) : i \in 1..NumNavLinks}
sectionElts == {El("section", i) : i \in 1..NumNavLinks}
lazyImgElts == {El("lazyImg", i) : i \in 1..NumImages}

TabElts == {operationsZone, tabContainer} \cup tabBtnElts \cup tabLabelElts \cup contentElts
NavElts == {nav, logo, navLinks} \cup navLinkElts \cup navLinkLabelElts
ModalElts == {modal, overlay, btnCloseModal} \cup btnsOpenModal
SliderElts(n) == {slider, btnLeft, btnRight, dotsBox} \cup slides(n) \cup dotElts(n)
Elements(n) ==
  {document} \cup ModalElts \cup SliderElts(n) \cup TabElts \cup NavElts \cup sectionElts
    \cup lazyImgElts \cup {header}

parentNode(n) ==
  CASE n.tag = "document" -> Null
    [] n.tag = "null" -> Null
    [] n.tag = "btnCloseModal" -> modal
    [] n.tag \in {"slide", "btnLeft", "btnRight", "dots"} -> slider
    [] n.tag = "dot" -> dotsBox
    [] n.tag \in {"tabContainer", "content"} -> operationsZone
    [] n.tag = "tab" -> tabContainer
    [] n.tag = "tabLabel" -> El("tab", n.idx)
    [] n.tag \in {"logo", "navLinks"} -> nav
    [] n.tag = "navLink" -> navLinks
    [] n.tag = "navLinkLabel" -> El("navLink", n.idx)
    [] OTHER -> document

\* A selector is the set of class names an element must carry.
matches(classes, n, selector) == n \in DOMAIN classes /\ selector \subseteq classes[n]

RECURSIVE closest(_, _, _)
closest(classes, n, selector) ==
  IF n = Null THEN Null
  ELSE IF matches(classes, n, selector) THEN n
  ELSE closest(classes, parentNode(n), selector)

\* whether n lies inside root (root itself excluded)
RECURSIVE contains(_, _)
contains(root, n) ==
  IF n = Null \/ parentNode(n) = Null THEN FALSE
  ELSE parentNode(n) = root \/ contains(root, parentNode(n))

querySelectorAll(classes, root, selector) ==
  {n \in DOMAIN classes : contains(root, n) /\ matches(classes, n, selector)}

\* the first match; the matches of every selector used are siblings in index order
querySelector(classes, root, selector) ==
  LET found == querySelectorAll(classes, root, selector)
  IN IF found = {} THEN Null
     ELSE CHOOSE n \in found : \A m \in found : n.idx <= m.idx

\* ------------------------------------------------------------------ utils
selectorMatchingStrategy(classes, selector, e) ==
  matches(classes, e.target, selector) \/ closest(classes, e.target, selector) # Null

\* faulty variant: the callback runs whatever the strategy says
delegatedEventListenerAlways(matching, e) == [invoked |-> TRUE, this |-> e.target]

\* The callback runs iff the strategy holds, with evt.target as its this.
delegatedEventListener(matching, e) ==
  [invoked |-> matching, this |-> IF matching THEN e.target ELSE Null]

delegatedTargetSelectorEventListener(classes, selector, e) ==
  delegatedEventListener(selectorMatchingStrategy(classes, selector, e), e) @@ [selector |-> selector]

\* faulty variant: the class is added when asked for and never removed
toggleClassAddOnly(classes, className, isPresent) ==
  IF isPresent THEN classes \cup {className} ELSE classes

toggleClass(classes, className, isPresent) ==
  IF isPresent THEN classes \cup {className} ELSE classes \ {className}

NoCall == [invoked |-> FALSE, this |-> Null, selector |-> {}]

\* ----------------------------------------------------------------- events
Keys == {"Escape", "ArrowLeft", "ArrowRight", "Enter"}
Event(type, target, key, width) == [type |-> type, target |-> target, key |-> key, width |-> width]
NoEvent == Event("none", Null, "", 0)

\* ------------------------------------------------------------ digit strings
DigitChar == <<"0", "1", "2", "3", "4", "5", "6", "7", "8", "9">>
DigitValue(c) == (CHOOSE d \in 1..10 : DigitChar[d] = c) - 1

\* `${index}`: the decimal digits of a non-negative integer
RECURSIVE FormatInt(_)
FormatInt(n) ==
  IF n < 10 THEN <<DigitChar[n + 1]>>
  ELSE Append(FormatInt(n \div 10), DigitChar[(n % 10) + 1])

RECURSIVE parseIntFrom(_, _)
parseIntFrom(s, acc) ==
  IF s = <<>> THEN acc ELSE parseIntFrom(Tail(s), acc * 10 + DigitValue(Head(s)))

\* parseInt of a non-empty digit string (what addDots writes into data-slide)
parseInt(s) == parseIntFrom(s, 0)

\* ------------------------------------------------------------------ modal
openModal(classes) ==
  [classes EXCEPT ![modal] = @ \ {"hidden"}, ![overlay] = @ \ {"hidden"}]

\* faulty variant: the overlay is left as it is
closeModalOnly(classes) ==
  [classes EXCEPT ![modal] = @ \cup {"hidden"}]

closeModal(classes) ==
  [classes EXCEPT ![modal] = @ \cup {"hidden"}, ![overlay] = @ \cup {"hidden"}]

\* faulty variant: the listener closes the modal on any key
modalKeydownAnyKey(classes, e) ==
  IF "hidden" \notin classes[modal] THEN closeModal(classes) ELSE classes

modalKeydown(classes, e) ==
  IF e.key = "Escape" /\ "hidden" \notin classes[modal] THEN closeModal(classes) ELSE classes

\* ----------------------------------------------------------------- header
navLinkSel == {"nav__link"}
NavBreakpoint == 1000

\* what evt.target.getAttribute('href') gives, as the selector querySelector reads:
\* an element without the attribute gives null, read as the type selector "null"
getAttributeHref(n) == IF n \in navLinkElts THEN "#section--" \o ToString(n.idx) ELSE "null"

idOf(n) == IF n \in sectionElts THEN "section--" \o ToString(n.idx) ELSE ""

documentQuerySelector(selector) ==
  LET found == {n \in sectionElts : idAttr[n] # "" /\ "#" \o idAttr[n] = selector}
  IN IF found = {} THEN Null ELSE CHOOSE n \in found : TRUE

\* faulty variant: a link without a target element is ignored without a fault
navLinkClickGuarded(scrolled, e) ==
  LET target == documentQuerySelector(getAttributeHref(e.target))
  IN [defaultPrevented |-> TRUE,
      scrolledTo |-> IF target = Null THEN scrolled ELSE target,
      fault |-> FALSE]

\* the callback of the delegated click listener of .nav__links: preventDefault(),
\* then scrollIntoView() on the element found, a TypeError when none is found
navLinkClick(scrolled, e) ==
  LET target == documentQuerySelector(getAttributeHref(e.target))
  IN [defaultPrevented |-> TRUE,
      scrolledTo |-> IF target = Null THEN scrolled ELSE target,
      fault |-> target = Null]

\* the listener handleHover(opacity) returns: every navigation link other than
\* evt.target and the image of the navigation bar get `${opacity}`
handleHover(value, styles, classes, e) ==
  LET links == querySelectorAll(classes, nav, navLinkSel)
  IN [n \in DOMAIN styles |->
        IF n \in links THEN (IF n # e.target THEN value ELSE styles[n])
        ELSE IF n = logo THEN value
        ELSE styles[n]]

toggleNavLinks(classes) ==
  [classes EXCEPT ![navLinks] =
     IF "nav__links--open" \in @ THEN @ \ {"nav__links--open"} ELSE @ \cup {"nav__links--open"}]

\* faulty variant: the list is closed only above the threshold, not at it
navResizeStrict(classes, innerWidth) ==
  IF innerWidth > NavBreakpoint
  THEN [classes EXCEPT ![navLinks] = @ \ {"nav__links--open"}]
  ELSE classes

navResize(classes, innerWidth) ==
  IF innerWidth >= NavBreakpoint
  THEN [classes EXCEPT ![navLinks] = @ \ {"nav__links--open"}]
  ELSE classes

\* ------------------------------------------------------------------- tabs
tabBtnSelector == {"btn", "operations__tab"}
datasetTab(n) == ToString(n.idx)

\* faulty variant: the panels are not deactivated before the new one is activated
tabClickKeepPanels(classes, this) ==
  LET clickedBtn == closest(classes, this, tabBtnSelector)
      tabButtons == querySelectorAll(classes, tabContainer, tabBtnSelector)
      c1 == [n \in DOMAIN classes |->
               IF n \in tabButtons THEN classes[n] \ {"operations__tab--active"} ELSE classes[n]]
      c2 == [c1 EXCEPT ![clickedBtn] = @ \cup {"operations__tab--active"}]
      panel == querySelector(c2, operationsZone,
                             {"operations__content--" \o datasetTab(clickedBtn)})
  IN [classList |-> [c2 EXCEPT ![panel] = @ \cup {"operations__content--active"}],
      fault |-> FALSE]

\* faulty variant: a missing panel leaves the classes as they were before the click
tabClickRollback(classes, this) ==
  LET clickedBtn == closest(classes, this, tabBtnSelector)
      tabButtons == querySelectorAll(classes, tabContainer, tabBtnSelector)
      tabs == querySelectorAll(classes, operationsZone, {"operations__content"})
      c1 == [n \in DOMAIN classes |->
               IF n \in tabButtons THEN classes[n] \ {"operations__tab--active"}
               ELSE IF n \in tabs THEN classes[n] \ {"operations__content--active"}
               ELSE classes[n]]
      c2 == [c1 EXCEPT ![clickedBtn] = @ \cup {"operations__tab--active"}]
      panel == querySelector(c2, operationsZone,
                             {"operations__content--" \o datasetTab(clickedBtn)})
  IN IF clickedBtn = Null THEN [classList |-> c1, fault |-> TRUE]
     ELSE IF panel = Null THEN [classList |-> classes, fault |-> TRUE]
     ELSE [classList |-> [c2 EXCEPT ![panel] = @ \cup {"operations__content--active"}],
           fault |-> FALSE]

\* the callback of the delegated click listener of the tab container; a TypeError
\* (clickedBtn or the panel being null) leaves the classes as changed so far
tabClick(classes, this) ==
  LET clickedBtn == closest(classes, this, tabBtnSelector)
      tabButtons == querySelectorAll(classes, tabContainer, tabBtnSelector)
      tabs == querySelectorAll(classes, operationsZone, {"operations__content"})
      c1 == [n \in DOMAIN classes |->
               IF n \in tabButtons THEN classes[n] \ {"operations__tab--active"}
               ELSE IF n \in tabs THEN classes[n] \ {"operations__content--active"}
               ELSE classes[n]]
      c2 == [c1 EXCEPT ![clickedBtn] = @ \cup {"operations__tab--active"}]
      panel == querySelector(c2, operationsZone,
                             {"operations__content--" \o datasetTab(clickedBtn)})
  IN IF clickedBtn = Null THEN [classList |-> c1, fault |-> TRUE]
     ELSE IF panel = Null THEN [classList |-> c2, fault |-> TRUE]
     ELSE [classList |-> [c2 EXCEPT ![panel] = @ \cup {"operations__content--active"}],
           fault |-> FALSE]

\* ----------------------------------------------------------- lazy images
placeholderSrc(n) == "img/" \o ToString(n.idx) \o "-lazy.jpg"
datasetSrc(n) == "img/" \o ToString(n.idx) \o ".jpg"

LazyState ==
  [observed |-> observed, src |-> src, srcWrites |-> srcWrites,
   loadListeners |-> loadListeners, pendingLoad |-> pendingLoad]

\* faulty variant: the image is not unobserved when it is loaded
lazyCallbackKeepObserving(l, batch) ==
  LET entry == batch[1]
      imageElt == entry.target
  IN IF entry.isIntersecting
     THEN [l EXCEPT !.src[imageElt] = datasetSrc(imageElt),
                    !.srcWrites[imageElt] = @ + 1,
                    !.pendingLoad[imageElt] = TRUE,
                    !.loadListeners[imageElt] = @ + 1]
     ELSE l

\* the callback of lazyLodaderObs: it reads the first entry only
lazyCallback(l, batch) ==
  LET entry == batch[1]
      imageElt == entry.target
  IN IF entry.isIntersecting
     THEN [l EXCEPT !.observed = @ \ {imageElt},
                    !.src[imageElt] = datasetSrc(imageElt),
                    !.srcWrites[imageElt] = @ + 1,
                    !.pendingLoad[imageElt] = TRUE,
                    !.loadListeners[imageElt] = @ + 1]
     ELSE l

\* faulty variant: the class is removed on every load event, listener or not
imageLoadedAlways(classes, listeners, imageElt) ==
  [classes EXCEPT ![imageElt] = @ \ {"lazy-img"}]

\* the load listeners of an image remove its lazy-img class
imageLoaded(classes, listeners, imageElt) ==
  IF listeners[imageElt] > 0
  THEN [classes EXCEPT ![imageElt] = @ \ {"lazy-img"}]
  ELSE classes

\* ------------------------------------------------- intersection observer
Status(entry) == IF entry.isIntersecting THEN "in" ELSE "out"

\* an observer queues an entry for a target when its isIntersecting changes
RECURSIVE Alternates(_, _)
Alternates(batch, rep) ==
  IF batch = <<>> THEN TRUE
  ELSE /\ Status(Head(batch)) # rep[Head(batch).target]
       /\ Alternates(Tail(batch), [rep EXCEPT ![Head(batch).target] = Status(Head(batch))])

RECURSIVE ReportedAfter(_, _)
ReportedAfter(batch, rep) ==
  IF batch = <<>> THEN rep
  ELSE ReportedAfter(Tail(batch), [rep EXCEPT ![Head(batch).target] = Status(Head(batch))])

\* the batches a callback can receive: entries of observed targets only, each
\* target's entries alternating; the first batch starts with one entry for every
\* target, in the order they were observed
Batches(targets, rep) ==
  LET Entry == [target : targets, isIntersecting : BOOLEAN]
      all == UNION {[1..k -> Entry] : k \in 1..MaxEntries}
  IN {batch \in all :
        /\ Alternates(batch, rep)
        /\ \A t \in targets :
             rep[t] = "none" => Len(batch) >= t.idx /\ batch[t.idx].target = t}

\* --------------------------------------------------------------- sections
\* every section gets the class section--hidden when the script runs
hideSections(classes) ==
  [n \in DOMAIN classes |->
     IF matches(classes, n, {"section"}) THEN classes[n] \cup {"section--hidden"} ELSE classes[n]]

\* the callback of sectionObs: it reads the first entry only
sectionCallback(classes, batch) ==
  LET entry == batch[1]
  IN [classes EXCEPT ![entry.target] = toggleClass(@, "section--hidden", ~entry.isIntersecting)]

\* the callback of headerObs: it reads the first entry only
headerCallback(classes, batch) ==
  [classes EXCEPT ![nav] = toggleClass(@, "sticky", ~batch[1].isIntersecting)]

\* ----------------------------------------------------------------- slider
dotClassName == "dots__dot"

SliderState == [selectedSlide |-> selectedSlide, transform |-> transform, classList |-> classList]

goTo(s, selected) ==
  LET dotList == querySelectorAll(s.classList, dotsBox, {dotClassName})
  IN [selectedSlide |-> selected,
      transform |-> [index \in DOMAIN s.transform |-> (index - selected) * 100],
      classList |-> [n \in DOMAIN s.classList |->
                       IF n \in dotList
                       THEN toggleClass(s.classList[n], "dots__dot--active", n.idx = selected)
                       ELSE s.classList[n]]]

\* faulty variant: the index is advanced without the modulo
nextNoWrap(s) == goTo(s, s.selectedSlide + 1)

\* faulty variant: the index is kept on the last slide instead of wrapping
nextClamped(s) ==
  goTo(s, IF s.selectedSlide + 1 < numSlides THEN s.selectedSlide + 1 ELSE s.selectedSlide)

next(s) == goTo(s, (s.selectedSlide + 1) % numSlides)

\* faulty variant: the index is kept on the first slide instead of wrapping
previousClamped(s) == goTo(s, IF s.selectedSlide = 0 THEN 0 ELSE s.selectedSlide - 1)

previous(s) == goTo(s, (IF s.selectedSlide = 0 THEN numSlides ELSE s.selectedSlide) - 1)

addDots(n) == [index \in 0..(n - 1) |-> FormatInt(index)]

\* faulty variant: every key but ArrowLeft moves to the next slide
sliderKeyupAnyKey(s, e) ==
  IF e.key = "ArrowLeft" THEN previous(s) ELSE next(s)

sliderKeyup(s, e) ==
  IF e.key = "ArrowLeft" THEN previous(s)
  ELSE IF e.key = "ArrowRight" THEN next(s)
  ELSE s

\* the delegated click listener of the slider
sliderDotClick(s, e) ==
  IF selectorMatchingStrategy(s.classList, {dotClassName}, e)
  THEN goTo(s, parseInt(dots[e.target.idx]))
  ELSE s

\* ------------------------------------------------------------- the markup
\* the class names the selectors of the script find the elements by
SelectorClasses(n) ==
  [e \in Elements(n) |->
     CASE e = modal -> {"modal"}
       [] e = overlay -> {"overlay"}
       [] e = operationsZone -> {"operations"}
       [] e = tabContainer -> {"operations__tab-container"}
       [] e \in tabBtnElts -> {"btn", "operations__tab"}
       [] e \in contentElts -> {"operations__content", "operations__content--" \o ToString(e.idx)}
       [] e = nav -> {"nav"}
       [] e = logo -> {"nav__logo"}
       [] e = navLinks -> {"nav__links"}
       [] e \in navLinkElts -> {"nav__link"}
       [] e \in sectionElts -> {"section"}
       [] e \in lazyImgElts -> {"lazy-img"}
       [] e = header -> {"header"}
       [] e = btnCloseModal -> {"btn--close-modal"}
       [] e \in btnsOpenModal -> {"btn--show-modal"}
       [] e = slider -> {"slider"}
       [] e = btnLeft -> {"slider__btn", "slider__btn--left"}
       [] e = btnRight -> {"slider__btn", "slider__btn--right"}
       [] e = dotsBox -> {"dots"}
       [] e \in slides(n) -> {"slide"}
       [] e \in dotElts(n) -> {dotClassName}
       [] OTHER -> {}]

\* a page: the tab buttons and panels that are active as served, the panels
\* that lack the class of their key, and the sections that lack their id
Page(activeTabs, activePanels, unkeyedPanels, anonymousSections) ==
  [activeTabs |-> activeTabs, activePanels |-> activePanels,
   unkeyedPanels |-> unkeyedPanels, anonymousSections |-> anonymousSections]

\* the page with a panel for every tab key and a section for every link
WellFormedPage(activeTabs, activePanels) == Page(activeTabs, activePanels, {}, {})

\* the page as served: the modal and the overlay hidden, the navigation list
\* closed, the tab buttons and the panels the page names active
InitialClasses(n, page) ==
  [e \in Elements(n) |->
     (IF e \in page.unkeyedPanels THEN {"operations__content"} ELSE SelectorClasses(n)[e])
       \cup
       CASE e \in {modal, overlay} -> {"hidden"}
         [] e \in page.activeTabs -> {"operations__tab--active"}
         [] e \in page.activePanels -> {"operations__content--active"}
         [] OTHER -> {}]

\* ------------------------------------------------------ operation history
RecordOp(op, from) ==
  /\ sliderOps' = IF op = "none" THEN sliderOps
                  ELSE IF Len(sliderOps) < 2 THEN Append(sliderOps, [op |-> op, from |-> from])
                  ELSE <<sliderOps[2], [op |-> op, from |-> from]>>
  /\ nextRun' = IF op = "none" THEN nextRun
                ELSE IF op # "next" THEN [start |-> 0, len |-> 0]
                ELSE IF nextRun.len = 0 \/ nextRun.len = numSlides
                     THEN [start |-> from, len |-> 1]
                     ELSE [nextRun EXCEPT !.len = @ + 1]

\* ------------------------------------------------------------------- init
InitWith(slideCounts, page) ==
  /\ numSlides \in slideCounts
  /\ dots = addDots(numSlides)
  /\ LET s == goTo([selectedSlide |-> 0,
                    transform |-> [index \in 0..(numSlides - 1) |-> 0],
                    classList |-> hideSections(InitialClasses(numSlides, page))], 0)
     IN /\ selectedSlide = s.selectedSlide
        /\ transform = s.transform
        /\ classList = s.classList
  /\ evt = NoEvent
  /\ prevClassList = classList
  /\ cb = NoCall
  /\ sliderOps = <<>>
  /\ nextRun = [start |-> 0, len |-> 0]
  /\ fault = FALSE
  /\ defaultPrevented = FALSE
  /\ scrolledTo = Null
  /\ domLoaded = FALSE
  /\ idAttr = [n \in sectionElts |-> IF n \in page.anonymousSections THEN "" ELSE idOf(n)]
  /\ observed = lazyImgElts
  /\ src = [i \in lazyImgElts |-> placeholderSrc(i)]
  /\ srcWrites = [i \in lazyImgElts |-> 0]
  /\ loadListeners = [i \in lazyImgElts |-> 0]
  /\ pendingLoad = [i \in lazyImgElts |-> TRUE]
  /\ everIntersecting = {}
  /\ reported = [i \in lazyImgElts |-> "none"]
  /\ entries = <<>>
  /\ sectionReported = [n \in sectionElts |-> "none"]
  /\ headerReported = [n \in {header} |-> "none"]
  /\ opacity = [n \in navLinkElts \cup {logo} |-> ""]
  /\ hovered = Null

\* the page with its first tab and panel active
Init == InitWith(1..MaxSlides, WellFormedPage({El("tab", 1)}, {El("content", 1)}))

\* the same page with MaxSlides slides
InitNav == InitWith({MaxSlides}, WellFormedPage({El("tab", 1)}, {El("content", 1)}))

\* the page with any distribution of the active classes over the tabs and panels
InitTabs == \E activeTabs \in SUBSET tabBtnElts, activePanels \in SUBSET contentElts :
              InitWith({MaxSlides}, WellFormedPage(activeTabs, activePanels))

\* the page with some of the sections the navigation links point to missing
InitDangling == \E anonymous \in SUBSET sectionElts :
                  InitWith({MaxSlides}, Page({El("tab", 1)}, {El("content", 1)}, {}, anonymous))

\* ---------------------------------------------------------------- actions
\* the record of the event dispatched by a step
Dispatch(e, call, threw, prevented) ==
  /\ evt' = e
  /\ prevClassList' = classList
  /\ cb' = call
  /\ fault' = threw
  /\ defaultPrevented' = prevented

SetSlider(s) ==
  /\ selectedSlide' = s.selectedSlide
  /\ transform' = s.transform
  /\ classList' = s.classList

\* a click inside the slider: the listener of the button clicked, then the
\* delegated listener of the slider the event bubbles to
ClickSlider(t) ==
  /\ t \in SliderElts(numSlides)
  /\ LET e == Event("click", t, "", 0)
         s1 == IF t = btnLeft THEN previous(SliderState)
               ELSE IF t = btnRight THEN next(SliderState)
               ELSE SliderState
         call == delegatedTargetSelectorEventListener(s1.classList, {dotClassName}, e)
         s2 == sliderDotClick(s1, e)
     IN /\ SetSlider(s2)
        /\ Dispatch(e, call, FALSE, FALSE)
        /\ RecordOp(IF t = btnLeft THEN "previous"
                    ELSE IF t = btnRight THEN "next"
                    ELSE IF call.invoked THEN "goTo" ELSE "none", selectedSlide)
  /\ UNCHANGED <<obsVars, hoverVars, numSlides, dots, navVars, lazyVars>>

\* a click on the modal, the overlay or a button that opens or closes the modal
ClickModal(t) ==
  /\ t \in ModalElts
  /\ classList' = IF t \in btnsOpenModal THEN openModal(classList)
                  ELSE IF t = btnCloseModal \/ t = overlay THEN closeModal(classList)
                  ELSE classList
  /\ Dispatch(Event("click", t, "", 0), NoCall, FALSE, FALSE)
  /\ UNCHANGED <<obsVars, hoverVars, sliderVars, lazyVars, navVars>>

\* keydown reaches the listener of the modal only
Keydown(k) ==
  /\ k \in Keys
  /\ LET e == Event("keydown", document, k, 0)
     IN /\ classList' = modalKeydown(classList, e)
        /\ Dispatch(e, NoCall, FALSE, FALSE)
  /\ UNCHANGED <<obsVars, hoverVars, sliderVars, lazyVars, navVars>>

\* keyup reaches the listener of the slider only
Keyup(k) ==
  /\ k \in Keys
  /\ LET e == Event("keyup", document, k, 0)
     IN /\ SetSlider(sliderKeyup(SliderState, e))
        /\ Dispatch(e, NoCall, FALSE, FALSE)
        /\ RecordOp(IF k = "ArrowLeft" THEN "previous"
                    ELSE IF k = "ArrowRight" THEN "next" ELSE "none", selectedSlide)
  /\ UNCHANGED <<obsVars, hoverVars, numSlides, dots, navVars, lazyVars>>

\* a click inside the operations zone: the delegated listener of the tab
\* container runs when the event bubbles through the container
\* pages with one button and one panel active, on which one panel lacks the
\* class its tab button names
InitTabsMissing ==
  \E b \in tabBtnElts, a \in contentElts, c \in contentElts :
    InitWith({MaxSlides}, Page({b}, {a}, {c}, {}))

ClickTabs(t) ==
  /\ t \in TabElts
  /\ LET e == Event("click", t, "", 0)
         call == IF t = tabContainer \/ contains(tabContainer, t)
                 THEN delegatedTargetSelectorEventListener(classList, tabBtnSelector, e)
                 ELSE NoCall
         r == IF call.invoked THEN tabClick(classList, call.this)
              ELSE [classList |-> classList, fault |-> FALSE]
     IN /\ classList' = r.classList
        /\ Dispatch(e, call, r.fault, FALSE)
  /\ UNCHANGED <<obsVars, hoverVars, sliderVars, lazyVars, navVars>>

\* a click inside the navigation bar: the listener of the logo (once registered),
\* or the delegated listener of .nav__links when the event bubbles through it
ClickNav(t) ==
  /\ t \in NavElts
  /\ LET e == Event("click", t, "", 0)
         call == IF t = navLinks \/ contains(navLinks, t)
                 THEN delegatedTargetSelectorEventListener(classList, navLinkSel, e)
                 ELSE NoCall
         r == IF call.invoked THEN navLinkClick(scrolledTo, e)
              ELSE [defaultPrevented |-> FALSE, scrolledTo |-> scrolledTo, fault |-> FALSE]
     IN /\ classList' = IF t = logo /\ domLoaded THEN toggleNavLinks(classList) ELSE classList
        /\ scrolledTo' = r.scrolledTo
        /\ Dispatch(e, call, r.fault, r.defaultPrevented)
  /\ UNCHANGED <<obsVars, hoverVars, sliderVars, lazyVars, domLoaded, idAttr>>

\* the DOMContentLoaded listener registers the logo and resize listeners
DOMContentLoaded ==
  /\ ~domLoaded
  /\ domLoaded' = TRUE
  /\ Dispatch(Event("DOMContentLoaded", document, "", 0), NoCall, FALSE, FALSE)
  /\ UNCHANGED <<obsVars, hoverVars, sliderVars, lazyVars, scrolledTo, idAttr, classList>>

Widths == {NavBreakpoint - 1, NavBreakpoint, NavBreakpoint + 200}

\* a resize of the window to the inner width w
Resize(w) ==
  /\ w \in Widths
  /\ classList' = IF domLoaded THEN navResize(classList, w) ELSE classList
  /\ Dispatch(Event("resize", document, "", w), NoCall, FALSE, FALSE)
  /\ UNCHANGED <<obsVars, hoverVars, sliderVars, lazyVars, navVars>>

\* lazyLodaderObs delivers a batch of entries to its callback
NotifyLazy(batch) ==
  /\ batch \in Batches(observed, reported)
  /\ LET l == lazyCallback(LazyState, batch)
     IN /\ observed' = l.observed
        /\ src' = l.src
        /\ srcWrites' = l.srcWrites
        /\ loadListeners' = l.loadListeners
        /\ pendingLoad' = l.pendingLoad
  /\ reported' = ReportedAfter(batch, reported)
  /\ entries' = batch
  /\ everIntersecting' = everIntersecting \cup
                           {batch[k].target : k \in {j \in 1..Len(batch) : batch[j].isIntersecting}}
  /\ Dispatch(Event("intersection", document, "", 0), NoCall, FALSE, FALSE)
  /\ UNCHANGED <<obsVars, hoverVars, sliderVars, navVars, classList>>

\* the browser finishes loading the src assigned to an image: its load event
ImageLoad(imageElt) ==
  /\ imageElt \in lazyImgElts
  /\ pendingLoad[imageElt]
  /\ pendingLoad' = [pendingLoad EXCEPT ![imageElt] = FALSE]
  /\ classList' = imageLoaded(classList, loadListeners, imageElt)
  /\ Dispatch(Event("load", imageElt, "", 0), NoCall, FALSE, FALSE)
  /\ UNCHANGED <<obsVars, hoverVars, sliderVars, navVars, observed, src, srcWrites,
                 loadListeners, reported, entries, everIntersecting>>

\* sectionObs delivers a batch of entries to its callback
NotifySections(batch) ==
  /\ batch \in Batches(sectionElts, sectionReported)
  /\ classList' = sectionCallback(classList, batch)
  /\ sectionReported' = ReportedAfter(batch, sectionReported)
  /\ entries' = batch
  /\ Dispatch(Event("intersection", document, "", 0), NoCall, FALSE, FALSE)
  /\ UNCHANGED <<sliderVars, navVars, hoverVars, headerReported,
                 observed, src, srcWrites, loadListeners, pendingLoad, reported,
                 everIntersecting>>

\* headerObs delivers a batch of entries for the header to its callback
NotifyHeader(batch) ==
  /\ batch \in Batches({header}, headerReported)
  /\ classList' = headerCallback(classList, batch)
  /\ headerReported' = ReportedAfter(batch, headerReported)
  /\ entries' = batch
  /\ Dispatch(Event("intersection", document, "", 0), NoCall, FALSE, FALSE)
  /\ UNCHANGED <<sliderVars, navVars, hoverVars, sectionReported,
                 observed, src, srcWrites, loadListeners, pendingLoad, reported,
                 everIntersecting>>

\* the pointer enters the element t of the navigation bar: the delegated
\* mouseover listener of the bar
MouseOver(t) ==
  /\ t \in NavElts
  /\ hovered = Null
  /\ hovered' = t
  /\ LET e == Event("mouseover", t, "", 0)
         call == delegatedTargetSelectorEventListener(classList, navLinkSel, e)
     IN /\ opacity' = IF call.invoked THEN handleHover("0.5", opacity, classList, e) ELSE opacity
        /\ Dispatch(e, call, FALSE, FALSE)
  /\ UNCHANGED <<sliderVars, navVars, lazyVars, obsVars, classList>>

\* the pointer leaves the element t it was over: the delegated mouseout listener
MouseOut(t) ==
  /\ t \in NavElts
  /\ hovered = t
  /\ hovered' = Null
  /\ LET e == Event("mouseout", t, "", 0)
         call == delegatedTargetSelectorEventListener(classList, navLinkSel, e)
     IN /\ opacity' = IF call.invoked THEN handleHover("1", opacity, classList, e) ELSE opacity
        /\ Dispatch(e, call, FALSE, FALSE)
  /\ UNCHANGED <<sliderVars, navVars, lazyVars, obsVars, classList>>

Next ==
  \/ \E t \in SliderElts(numSlides) : ClickSlider(t)
  \/ \E t \in ModalElts : ClickModal(t)
  \/ \E k \in Keys : Keydown(k)
  \/ \E k \in Keys : Keyup(k)

NextTabs == \E t \in TabElts : ClickTabs(t)

NextNavClicks ==
  \/ \E t \in NavElts : ClickNav(t)
  \/ DOMContentLoaded
  \/ \E w \in Widths : Resize(w)

NextNav ==
  \/ NextNavClicks
  \/ \E batch \in Batches({header}, headerReported) : NotifyHeader(batch)
  \/ \E t \in NavElts : MouseOver(t)
  \/ \E t \in NavElts : MouseOut(t)

NextLazy ==
  \/ \E batch \in Batches(observed, reported) : NotifyLazy(batch)
  \/ \E imageElt \in lazyImgElts : ImageLoad(imageElt)

NextSections == \E batch \in Batches(sectionElts, sectionReported) : NotifySections(batch)

\* the slider, the modal and the keyboard
Spec == Init /\ [][Next]_vars

\* the tab manager, from any distribution of the active classes
SpecTabs == InitTabs /\ [][NextTabs]_vars
SpecTabsMissing == InitTabsMissing /\ [][NextTabs]_vars

\* the navigation bar: link clicks, hovering, the sticky toggle, the logo toggle
\* and window resizes
SpecNav == InitNav /\ [][NextNav]_vars

\* clicks and resizes in the navigation bar of a page where links may point to
\* no element
SpecNavDangling == InitDangling /\ [][NextNavClicks]_vars

\* the section reveal: observer callbacks
SpecSections == Init /\ [][NextSections]_vars

\* the lazy image loader: observer callbacks and load events
SpecLazy == Init /\ [][NextLazy]_vars

\* ----------------------------------------------------------------- claims
ActiveDots == {d \in dotElts(numSlides) : "dots__dot--active" \in classList[d]}
LastOp == sliderOps[Len(sliderOps)]
ModalOpen == "hidden" \notin classList[modal]

\* C1: the selected index is an integer in [0, N) after initialisation and after
\* every sequence of next(), previous() and dot clicks; it is 0 initially.
C1_SelectedInRange ==
  /\ selectedSlide \in 0..(numSlides - 1)
  /\ (evt = NoEvent => selectedSlide = 0)

\* C1 witness: next() has wrapped from the last of MaxSlides slides after a dot click
C1_Witness ==
  /\ numSlides = MaxSlides
  /\ Len(sliderOps) = 2
  /\ sliderOps[1].op = "goTo"
  /\ sliderOps[2] = [op |-> "next", from |-> numSlides - 1]
  /\ selectedSlide = 0

\* C2: N consecutive next() calls from index s return to s; next() from N-1 gives 0.
C2_NextCycle ==
  /\ (nextRun.len = numSlides => selectedSlide = nextRun.start)
  /\ (sliderOps # <<>> /\ LastOp = [op |-> "next", from |-> numSlides - 1] => selectedSlide = 0)

\* C2 witness: MaxSlides consecutive next() calls that started at index 1
C2_Witness ==
  /\ numSlides = MaxSlides
  /\ nextRun = [start |-> 1, len |-> numSlides]
  /\ selectedSlide = 1

\* C3: previous() then next(), and next() then previous(), leave the index as it was.
C3_PrevNextIdentity ==
  (/\ Len(sliderOps) = 2
   /\ <<sliderOps[1].op, sliderOps[2].op>> \in {<<"previous", "next">>, <<"next", "previous">>})
  => selectedSlide = sliderOps[1].from

\* C3 witness: previous() from index 0 wrapped to the last slide and next() came back
C3_Witness ==
  /\ numSlides = MaxSlides
  /\ sliderOps = <<[op |-> "previous", from |-> 0], [op |-> "next", from |-> numSlides - 1]>>
  /\ selectedSlide = 0

\* C4: exactly one dot is active and it is the dot of the selected index; the
\* selected slide is at offset 0 and slide j at (j - selected) * 100, never 0.
C4_DotsAndOffsets ==
  /\ ActiveDots = {El("dot", selectedSlide)}
  /\ Cardinality(ActiveDots) = 1
  /\ DOMAIN transform = 0..(numSlides - 1)
  /\ transform[selectedSlide] = 0
  /\ \A j \in DOMAIN transform :
       j # selectedSlide =>
         /\ transform[j] = (j - selectedSlide) * 100
         /\ transform[j] # 0
         /\ transform[j] % 100 = 0

\* C4 witness: a click on the last dot moved the slider there from another slide
C4_Witness ==
  /\ numSlides = MaxSlides
  /\ evt = Event("click", El("dot", numSlides - 1), "", 0)
  /\ cb.invoked
  /\ sliderOps # <<>> /\ LastOp.op = "goTo" /\ LastOp.from = 0
  /\ selectedSlide = numSlides - 1

\* C6: an open button opens the modal from either state; the close button and the
\* overlay close it; Escape closes it when open and changes nothing when closed;
\* no other key, pressed or released, changes the modal.
C6_ModalMachine ==
  [][/\ (evt'.type = "click" /\ evt'.target \in btnsOpenModal => ModalOpen')
     /\ (evt'.type = "click" /\ evt'.target \in {btnCloseModal, overlay} => ~ModalOpen')
     /\ (evt'.type = "keydown" /\ evt'.key = "Escape" =>
           /\ ~ModalOpen'
           /\ (~ModalOpen => classList' = classList))
     /\ (evt'.type = "keydown" /\ evt'.key # "Escape" => classList' = classList)
     /\ (evt'.type = "keyup" =>
           /\ classList'[modal] = classList[modal]
           /\ classList'[overlay] = classList[overlay])]_vars

\* C6 witness: Escape has closed a modal that was open
C6_Witness ==
  /\ evt = Event("keydown", document, "Escape", 0)
  /\ "hidden" \notin prevClassList[modal]
  /\ ~ModalOpen

ActiveTabBtns == {b \in tabBtnElts : "operations__tab--active" \in classList[b]}
ActivePanels == {c \in contentElts : "operations__content--active" \in classList[c]}
NavOpen(classes) == "nav__links--open" \in classes[navLinks]

\* C5: after a click on a tab button or on a descendant of one, from any
\* distribution of the active classes, exactly the clicked button and exactly the
\* panel keyed by its data-tab value are active.
C5_TabExclusive ==
  LET clickedBtn == closest(prevClassList, evt.target, tabBtnSelector)
  IN (evt.type = "click" /\ clickedBtn \in tabBtnElts) =>
       /\ ActiveTabBtns = {clickedBtn}
       /\ Cardinality(ActivePanels) = 1
       /\ \A c \in ActivePanels :
            ("operations__content--" \o datasetTab(clickedBtn)) \in classList[c]
       /\ ~fault

\* C5 witness: a click on the label inside the second tab button, with every
\* button and every panel active before it
C5_Witness ==
  /\ evt = Event("click", El("tabLabel", 2), "", 0)
  /\ \A b \in tabBtnElts : "operations__tab--active" \in prevClassList[b]
  /\ \A c \in contentElts : "operations__content--active" \in prevClassList[c]
  /\ ActiveTabBtns = {El("tab", 2)}
  /\ ActivePanels = {El("content", 2)}

\* C8: after a resize to a width >= 1000 the navigation list is not open, whatever
\* it was before; a resize to a width < 1000 leaves the classes as they were.
C8_ResizeCloses ==
  /\ (evt.type = "resize" /\ evt.width >= 1000 => ~NavOpen(classList))
  /\ (evt.type = "resize" /\ evt.width < 1000 => classList = prevClassList)

\* C8 witness: a resize to exactly 1000 has closed an open navigation list
C8_Witness ==
  /\ evt = Event("resize", document, "", 1000)
  /\ NavOpen(prevClassList)
  /\ ~NavOpen(classList)

C10_NavLinkScroll ==
  (evt.type = "click" /\ (evt.target = navLinks \/ contains(navLinks, evt.target))) =>
    LET link == closest(prevClassList, evt.target, navLinkSel)
    IN IF link # Null
       THEN /\ defaultPrevented
            /\ ~fault
            /\ scrolledTo = documentQuerySelector(getAttributeHref(link))
       ELSE /\ ~defaultPrevented
            /\ ~fault
            /\ classList = prevClassList

\* C7: once the real source of an image has been applied the image is no longer
\* observed, and no later step assigns its src again or changes it.
C7_LazyOneShot ==
  [][\A i \in lazyImgElts :
       src[i] = datasetSrc(i) =>
         /\ i \notin observed
         /\ i \notin observed'
         /\ src'[i] = src[i]
         /\ srcWrites'[i] = srcWrites[i]]_vars

\* C7 witness: the callback loaded an image from the first entry of a batch that
\* held a further entry for the same image, and assigned its src once
C7_Witness ==
  /\ Len(entries) = 2
  /\ entries[1].target = entries[2].target
  /\ entries[1].isIntersecting
  /\ src[entries[1].target] = datasetSrc(entries[1].target)
  /\ srcWrites[entries[1].target] = 1
  /\ entries[1].target \notin observed

LinkTarget(link) == documentQuerySelector(getAttributeHref(link))

\* C11 as stated: a click on a navigation link whose fragment matches no element
\* raises no fault, scrolls nothing and changes no page state.
C11_DanglingLinkSilent ==
  (evt.type = "click" /\ evt.target \in navLinkElts /\ LinkTarget(evt.target) = Null) =>
    /\ ~fault
    /\ classList = prevClassList

\* C11 amended: such a click calls preventDefault() and then raises an unhandled
\* TypeError; nothing is scrolled and no class changes.
C11_DanglingLinkFaults ==
  [][(evt'.type = "click" /\ evt'.target \in navLinkElts /\ LinkTarget(evt'.target) = Null) =>
       /\ fault'
       /\ defaultPrevented'
       /\ scrolledTo' = scrolledTo
       /\ classList' = classList]_vars

\* C11 witness: a click on the first link, whose section is missing, has faulted
\* after the second link had scrolled its section into view
C11_Witness ==
  /\ evt = Event("click", El("navLink", 1), "", 0)
  /\ LinkTarget(El("navLink", 1)) = Null
  /\ fault
  /\ defaultPrevented
  /\ scrolledTo = El("section", 2)

\* the positions of the entries of a batch that name the target t
EntriesOf(batch, t) == {k \in 1..Len(batch) : batch[k].target = t}
\* the entry of a batch that names t last
LatestEntry(batch, t) ==
  batch[CHOOSE k \in EntriesOf(batch, t) : \A j \in EntriesOf(batch, t) : j <= k]
Named(batch) == {batch[k].target : k \in 1..Len(batch)}

\* C12: every section starts hidden, and after a delivery every section named in
\* it is hidden iff its latest notification reports it as not intersecting, alone
\* or together with notifications for other sections.
C12_SectionsFollowLatest ==
  /\ (evt = NoEvent => \A n \in sectionElts : "section--hidden" \in classList[n])
  /\ (evt.type = "intersection" /\ Named(entries) \subseteq sectionElts =>
        \A n \in Named(entries) :
          "section--hidden" \in classList[n] <=> ~LatestEntry(entries, n).isIntersecting)

\* C13: after a delivery for the header, the navigation bar is sticky iff the
\* latest notification of the header reports it out of view, also when the
\* delivery carries several notifications.
C13_StickyFollowsLatest ==
  (evt.type = "intersection" /\ Named(entries) = {header}) =>
    ("sticky" \in classList[nav] <=> ~LatestEntry(entries, header).isIntersecting)

HoveredLink == closest(classList, evt.target, navLinkSel)
Dimmed(n) == opacity[n] = "0.5"

\* C14: on hover-enter over a link (the target being the link or a descendant)
\* every other link and the logo are dimmed and the hovered link is not; after
\* the hover-exit every link and the logo are at full opacity.
C14_HoverDimsOthers ==
  /\ (evt.type = "mouseover" /\ HoveredLink # Null =>
        /\ ~Dimmed(HoveredLink)
        /\ \A n \in (navLinkElts \ {HoveredLink}) \cup {logo} : Dimmed(n))
  /\ (evt.type = "mouseout" /\ HoveredLink # Null =>
        \A n \in navLinkElts \cup {logo} : ~Dimmed(n))

\* C15: every image a delivery reports as intersecting is, at the end of the
\* callback, no longer observed and has its data-src as src, also when several
\* images are reported together.
C15_AllReportedLoaded ==
  (evt.type = "intersection" /\ Named(entries) \subseteq lazyImgElts) =>
    \A k \in 1..Len(entries) :
      entries[k].isIntersecting =>
        /\ entries[k].target \notin observed
        /\ src[entries[k].target] = datasetSrc(entries[k].target)

Blurred(classes, i) == "lazy-img" \in classes[i]

\* C16: an image without the blur class has had its real source assigned, the
\* class goes only at a load event that follows the assignment, and an image no
\* notification reported as intersecting keeps its placeholder and its blur class.
C16_BlurUntilLoaded ==
  [][\A i \in lazyImgElts :
       /\ (~Blurred(classList', i) =>
             /\ src'[i] = datasetSrc(i)
             /\ srcWrites'[i] >= 1
             /\ loadListeners'[i] >= 1)
       /\ (Blurred(classList, i) /\ ~Blurred(classList', i) =>
             /\ evt' = Event("load", i, "", 0)
             /\ src[i] = datasetSrc(i))
       /\ (i \notin everIntersecting' =>
             /\ src'[i] = placeholderSrc(i)
             /\ Blurred(classList', i))]_vars

\* C16 witness: the first image has lost its blur class at the load event of its
\* real source; the second, reported only as not intersecting, keeps placeholder
\* and blur after its own (placeholder) load event
C16_Witness ==
  /\ ~Blurred(classList, El("lazyImg", 1))
  /\ src[El("lazyImg", 1)] = datasetSrc(El("lazyImg", 1))
  /\ reported[El("lazyImg", 2)] = "out"
  /\ El("lazyImg", 2) \notin everIntersecting
  /\ ~pendingLoad[El("lazyImg", 2)]
  /\ Blurred(classList, El("lazyImg", 2))
  /\ src[El("lazyImg", 2)] = placeholderSrc(El("lazyImg", 2))

DotClasses(classes) == [d \in dotElts(numSlides) |-> classes[d]]
SliderUnchanged ==
  /\ selectedSlide' = selectedSlide
  /\ transform' = transform
  /\ DotClasses(classList') = DotClasses(classList)

\* C17: a key press of any key (Escape included) and a key release of any key
\* but the arrows leave index, offsets and dots unchanged; ArrowLeft released is
\* previous, ArrowRight released is next, and neither changes the modal.
C17_KeyboardFrame ==
  [][/\ (evt'.type = "keydown" => SliderUnchanged)
     /\ (evt'.type = "keyup" /\ evt'.key \notin {"ArrowLeft", "ArrowRight"} =>
           SliderUnchanged /\ classList' = classList)
     /\ (evt'.type = "keyup" /\ evt'.key = "ArrowLeft" =>
           selectedSlide' = (selectedSlide + numSlides - 1) % numSlides)
     /\ (evt'.type = "keyup" /\ evt'.key = "ArrowRight" =>
           selectedSlide' = (selectedSlide + 1) % numSlides)
     /\ (evt'.type = "keyup" /\ evt'.key \in {"ArrowLeft", "ArrowRight"} =>
           /\ classList'[modal] = classList[modal]
           /\ classList'[overlay] = classList[overlay])]_vars

\* C17 witness: ArrowLeft released while the modal is open moved the slider from
\* the first slide to the last; the modal is still open
C17_Witness ==
  /\ numSlides = MaxSlides
  /\ evt = Event("keyup", document, "ArrowLeft", 0)
  /\ sliderOps # <<>> /\ LastOp = [op |-> "previous", from |-> 0]
  /\ selectedSlide = numSlides - 1
  /\ ModalOpen
  /\ "hidden" \notin prevClassList[modal]

\* C18: the modal carries the hidden class exactly when the overlay does.
C18_ModalWithOverlay ==
  "hidden" \in classList[modal] <=> "hidden" \in classList[overlay]

\* C18 witness: a click on the second open button has shown both, from hidden
C18_Witness ==
  /\ evt = Event("click", El("btnOpenModal", NumOpenBtns), "", 0)
  /\ "hidden" \in prevClassList[modal] /\ "hidden" \in prevClassList[overlay]
  /\ "hidden" \notin classList[modal] /\ "hidden" \notin classList[overlay]

PanelOf(classes, btn) ==
  querySelector(classes, operationsZone, {"operations__content--" \o datasetTab(btn)})

\* C19: a click on a tab button (or inside one) whose data-tab has no panel
\* faults with that button the only active one and no panel active; every other
\* class is as before the click, so the click is not rolled back.
C19_MissingPanelFault ==
  LET clickedBtn == closest(prevClassList, evt.target, tabBtnSelector)
  IN (evt.type = "click" /\ clickedBtn \in tabBtnElts /\ PanelOf(prevClassList, clickedBtn) = Null) =>
       /\ fault
       /\ ActiveTabBtns = {clickedBtn}
       /\ ActivePanels = {}
       /\ \A n \in DOMAIN classList :
            classList[n] \ {"operations__tab--active", "operations__content--active"}
              = prevClassList[n] \ {"operations__tab--active", "operations__content--active"}

\* C19 witness: the second button has no panel; a click on it, with the first
\* button and the first panel active before, faulted and left the second button
\* active and no panel
C19_Witness ==
  /\ evt = Event("click", El("tab", 2), "", 0)
  /\ PanelOf(prevClassList, El("tab", 2)) = Null
  /\ "operations__tab--active" \in prevClassList[El("tab", 1)]
  /\ "operations__tab--active" \notin prevClassList[El("tab", 2)]
  /\ "operations__content--active" \in prevClassList[El("content", 1)]
  /\ fault
  /\ ActiveTabBtns = {El("tab", 2)}
  /\ ActivePanels = {}

====
